---- MODULE Spec2Model ----
(***************************************************************************)
(* Model of check_prayer_times.py: one invocation of check_and_notify      *)
(* captures the wall clock, fetches the day's prayer times, walks the five *)
(* prayers in dictionary order and sends at most one ntfy notification.    *)
(* An external scheduler invokes the script again and again; nothing is    *)
(* kept between invocations.                                               *)
(*                                                                         *)
(* Time strings are sequences of one-character strings, so that split(':') *)
(* and int() are computed as Python computes them.                         *)
(***************************************************************************)
EXTENDS Integers, Sequences, FiniteSets, TLC

VARIABLES
    pc,           \* position in check_and_notify
    now,          \* datetime.now() captured at line 89
    response,     \* what the GET to the timings endpoint produced
    prayers,      \* return value of get_prayer_times()
    i,            \* position of the for loop in prayers.items()
    evaluated,    \* names of the prayers whose time string was parsed
    calls,        \* invocations of send_notification: (name, time) pairs
    sendOutcome,  \* what the POST to ntfy produced
    sendResult,   \* return value of send_notification
    netlog,       \* network requests issued by this run, in order
    log,          \* console lines printed by this run (tags)
    error,        \* exception that ended the run, if any
    exitStatus,   \* process exit status, -1 while running
    prevNotified  \* prayer notified by the previous invocation (history)

vars == <<pc, now, response, prayers, i, evaluated, calls, sendOutcome,
          sendResult, netlog, log, error, exitStatus, prevNotified>>

(***************************************************************************)
(* Program constants                                                       *)
(***************************************************************************)
NOTIFICATION_WINDOW == 5

\* variant: the five prayers enumerated in sorted key order
PrayerNames_Sorted == <<"Asr", "Dhuhr", "Fajr", "Isha", "Maghrib">>

\* insertion order of the dict literal built by get_prayer_times
PrayerNames == <<"Fajr", "Dhuhr", "Asr", "Maghrib", "Isha">>

Names == {PrayerNames[k] : k \in 1..Len(PrayerNames)}

(***************************************************************************)
(* Inputs: time strings, clock readings, responses                         *)
(***************************************************************************)
HHMM(a, b, c, d) == <<a, b, ":", c, d>>

T0500 == HHMM("0", "5", "0", "0")

T0508 == HHMM("0", "5", "0", "8")

T0558 == HHMM("0", "5", "5", "8")

T2358 == HHMM("2", "3", "5", "8")

T0615 == HHMM("0", "6", "1", "5")

\* "0500": split(':') yields one part
TNoColon == <<"0", "5", "0", "0">>

\* "05:00 (GST)": the minute part is not an integer literal
TZoneSuffix == <<"0", "5", ":", "0", "0", " ", "(", "G", "S", "T", ")">>

TimeStrings == {T0500, T0508, T0558, T2358, TNoColon, TZoneSuffix}

Clock(h, m) == [hour |-> h, minute |-> m]

Clocks == {Clock(5, 3), Clock(5, 10), Clock(6, 2), Clock(0, 2)}

NoClock == Clock(-1, -1)

Schedules == [Names -> TimeStrings]

(***************************************************************************)
(* str.split(':') and int()                                                *)
(***************************************************************************)
RECURSIVE SplitAcc(_, _, _)
SplitAcc(s, cur, acc) ==
    IF s = <<>> THEN Append(acc, cur)
    ELSE IF Head(s) = ":" THEN SplitAcc(Tail(s), <<>>, Append(acc, cur))
    ELSE SplitAcc(Tail(s), Append(cur, Head(s)), acc)

split(s) == SplitAcc(s, <<>>, <<>>)

Digits == {"0", "1", "2", "3", "4", "5", "6", "7", "8", "9"}

DigitVal(c) ==
    CASE c = "0" -> 0 [] c = "1" -> 1 [] c = "2" -> 2 [] c = "3" -> 3
      [] c = "4" -> 4 [] c = "5" -> 5 [] c = "6" -> 6 [] c = "7" -> 7
      [] c = "8" -> 8 [] c = "9" -> 9

RECURSIVE LStrip(_)
LStrip(s) == IF s # <<>> /\ Head(s) = " " THEN LStrip(Tail(s)) ELSE s

RECURSIVE RStrip(_)
RStrip(s) ==
    IF s # <<>> /\ s[Len(s)] = " " THEN RStrip(SubSeq(s, 1, Len(s) - 1)) ELSE s

RECURSIVE DigitsValue(_, _)
DigitsValue(s, acc) ==
    IF s = <<>> THEN acc ELSE DigitsValue(Tail(s), 10 * acc + DigitVal(Head(s)))

\* int(s): surrounding blanks are dropped, one sign is allowed, the rest must
\* be a non-empty run of decimal digits; otherwise ValueError (ok = FALSE)
int(s) ==
    LET t    == RStrip(LStrip(s))
        sgn  == t # <<>> /\ Head(t) \in {"+", "-"}
        body == IF sgn THEN Tail(t) ELSE t
        good == body # <<>> /\ \A k \in 1..Len(body) : body[k] \in Digits
        mag  == IF good THEN DigitsValue(body, 0) ELSE 0
    IN  [ok |-> good, val |-> IF sgn /\ Head(t) = "-" THEN 0 - mag ELSE mag]

\* variant: a string that does not parse is skipped instead of raising
ParseTime_Lenient(s) ==
    LET parts == split(s)
        h == IF Len(parts) = 2 THEN int(parts[1]) ELSE [ok |-> FALSE, val |-> 0]
        m == IF Len(parts) = 2 THEN int(parts[2]) ELSE [ok |-> FALSE, val |-> 0]
    IN  IF h.ok /\ m.ok
        THEN [ok |-> TRUE, hour |-> h.val, minute |-> m.val]
        ELSE [ok |-> TRUE, hour |-> -1, minute |-> -1]

\* prayer_hour, prayer_minute = map(int, prayer_time.split(':'))
\* ok = FALSE stands for the ValueError of int() or of the unpacking
ParseTime(s) ==
    LET parts == split(s)
    IN  IF Len(parts) # 2 THEN [ok |-> FALSE, hour |-> 0, minute |-> 0]
        ELSE LET h == int(parts[1])
                 m == int(parts[2])
             IN  IF h.ok /\ m.ok
                 THEN [ok |-> TRUE, hour |-> h.val, minute |-> m.val]
                 ELSE [ok |-> FALSE, hour |-> 0, minute |-> 0]

Abs(x) == IF x < 0 THEN 0 - x ELSE x

\* variant: the window is open at its ends
Matches_Strict(t, prayer_hour, prayer_minute) ==
    /\ t.hour = prayer_hour
    /\ Abs(t.minute - prayer_minute) < NOTIFICATION_WINDOW

\* variant: distance on the 24-hour clock face, ignoring the hour component
Matches_ClockDistance(t, prayer_hour, prayer_minute) ==
    LET d == Abs((60 * t.hour + t.minute) - (60 * prayer_hour + prayer_minute))
    IN  d <= NOTIFICATION_WINDOW \/ 1440 - d <= NOTIFICATION_WINDOW

\* now.hour == prayer_hour and abs(now.minute - prayer_minute) <= NOTIFICATION_WINDOW
Matches(t, prayer_hour, prayer_minute) ==
    /\ t.hour = prayer_hour
    /\ Abs(t.minute - prayer_minute) <= NOTIFICATION_WINDOW

(***************************************************************************)
(* The timings response and get_prayer_times                               *)
(***************************************************************************)
NoTimings == [k \in {} |-> <<>>]

Body(parses, isObject, hasCode, code, hasData, hasTimings, timings) ==
    [parses |-> parses, isObject |-> isObject, hasCode |-> hasCode,
     code |-> code, hasData |-> hasData, hasTimings |-> hasTimings,
     timings |-> timings]

Response(transport, status, body) ==
    [transport |-> transport, status |-> status, body |-> body]

\* the API's timings object holds more keys than the five prayers
FullTimings(sched) ==
    [k \in Names \cup {"Sunrise"} |-> IF k = "Sunrise" THEN T0615 ELSE sched[k]]

Without(f, k) == [x \in (DOMAIN f) \ {k} |-> f[x]]

DefaultTimings == FullTimings([k \in Names |-> T0500])

GoodBody(timings) == Body(TRUE, TRUE, TRUE, 200, TRUE, TRUE, timings)

NoBody == Body(FALSE, FALSE, FALSE, 0, FALSE, FALSE, NoTimings)

OkResponses == {Response("ok", 200, GoodBody(FullTimings(s))) : s \in Schedules}

BadResponses ==
    {Response("timeout", 0, NoBody),
     Response("connection_error", 0, NoBody),
     Response("ok", 404, GoodBody(DefaultTimings)),
     Response("ok", 500, GoodBody(DefaultTimings)),
     Response("ok", 204, NoBody),
     Response("ok", 200, NoBody),
     Response("ok", 200, Body(TRUE, FALSE, FALSE, 0, FALSE, FALSE, NoTimings)),
     Response("ok", 200, Body(TRUE, TRUE, FALSE, 0, TRUE, TRUE, DefaultTimings)),
     Response("ok", 200, Body(TRUE, TRUE, TRUE, 400, TRUE, TRUE, DefaultTimings)),
     Response("ok", 200, Body(TRUE, TRUE, TRUE, 400, FALSE, FALSE, NoTimings)),
     Response("ok", 200, Body(TRUE, TRUE, TRUE, 200, FALSE, FALSE, NoTimings)),
     Response("ok", 200, Body(TRUE, TRUE, TRUE, 200, TRUE, FALSE, NoTimings))}
    \cup {Response("ok", 200, GoodBody(Without(DefaultTimings, k))) : k \in Names}

Responses == OkResponses \cup BadResponses

NoResponse == Response("none", 0, NoBody)

None == [present |-> FALSE, times |-> NoTimings, diag |-> "none"]

Absent(diag) == [present |-> FALSE, times |-> NoTimings, diag |-> diag]

\* response.raise_for_status(): HTTPError for 4xx and 5xx
RaisesForStatus(status) == status >= 400 /\ status < 600

\* variant: the body's code field is not examined
get_prayer_times_NoCodeCheck(resp) ==
    IF resp.transport # "ok" THEN Absent("exception")
    ELSE IF RaisesForStatus(resp.status) THEN Absent("exception")
    ELSE IF ~resp.body.parses THEN Absent("exception")
    ELSE IF ~resp.body.isObject THEN Absent("exception")
    ELSE IF ~resp.body.hasData \/ ~resp.body.hasTimings THEN Absent("exception")
    ELSE IF \E k \in Names : k \notin DOMAIN resp.body.timings
         THEN Absent("exception")
    ELSE [present |-> TRUE,
          times   |-> [k \in Names |-> resp.body.timings[k]],
          diag    |-> "none"]

get_prayer_times(resp) ==
    IF resp.transport # "ok" THEN Absent("exception")
    ELSE IF RaisesForStatus(resp.status) THEN Absent("exception")
    ELSE IF ~resp.body.parses THEN Absent("exception")
    ELSE IF ~resp.body.isObject \/ ~resp.body.hasCode THEN Absent("exception")
    ELSE IF resp.body.code # 200 THEN Absent("api_error_code")
    ELSE IF ~resp.body.hasData \/ ~resp.body.hasTimings THEN Absent("exception")
    ELSE IF \E k \in Names : k \notin DOMAIN resp.body.timings
         THEN Absent("exception")
    ELSE [present |-> TRUE,
          times   |-> [k \in Names |-> resp.body.timings[k]],
          diag    |-> "none"]

SendOutcomes == {"ok", "timeout", "connection_error", "http_error"}

(***************************************************************************)
(* check_and_notify                                                        *)
(***************************************************************************)
Init ==
    /\ pc = "start"
    /\ now = NoClock
    /\ response = NoResponse
    /\ prayers = None
    /\ i = 0
    /\ evaluated = <<>>
    /\ calls = <<>>
    /\ sendOutcome = "none"
    /\ sendResult = "none"
    /\ netlog = <<>>
    /\ log = <<>>
    /\ error = "none"
    /\ exitStatus = -1
    /\ prevNotified = "norun"

\* now = datetime.now(); print current time
Start ==
    /\ pc = "start"
    /\ \E t \in Clocks : now' = t
    /\ log' = Append(log, "current_time")
    /\ pc' = "fetch"
    /\ UNCHANGED <<response, prayers, i, evaluated, calls, sendOutcome,
                   sendResult, netlog, error, exitStatus, prevNotified>>

\* variant: a failed GET is issued a second time
GetPrayerTimes_Retry ==
    /\ pc = "fetch"
    /\ \E resp \in Responses :
         /\ response' = resp
         /\ prayers' = get_prayer_times(resp)
         /\ log' = IF get_prayer_times(resp).diag = "none" THEN log
                   ELSE Append(log, get_prayer_times(resp).diag)
         /\ netlog' = IF get_prayer_times(resp).present
                      THEN Append(netlog, "GET")
                      ELSE netlog \o <<"GET", "GET">>
    /\ pc' = "fetched"
    /\ UNCHANGED <<now, i, evaluated, calls, sendOutcome, sendResult, error,
                   exitStatus, prevNotified>>

\* prayers = get_prayer_times()
GetPrayerTimes ==
    /\ pc = "fetch"
    /\ \E resp \in Responses :
         /\ response' = resp
         /\ prayers' = get_prayer_times(resp)
         /\ log' = IF get_prayer_times(resp).diag = "none" THEN log
                   ELSE Append(log, get_prayer_times(resp).diag)
    /\ netlog' = Append(netlog, "GET")
    /\ pc' = "fetched"
    /\ UNCHANGED <<now, i, evaluated, calls, sendOutcome, sendResult, error,
                   exitStatus, prevNotified>>

\* variant: a failed fetch ends the run normally
FetchFailed_ExitZero ==
    /\ pc = "fetched"
    /\ ~prayers.present
    /\ log' = Append(log, "failed_to_fetch")
    /\ exitStatus' = 0
    /\ pc' = "exited"
    /\ UNCHANGED <<now, response, prayers, i, evaluated, calls, sendOutcome,
                   sendResult, netlog, error, prevNotified>>

\* if not prayers: print(...); sys.exit(1)
FetchFailed ==
    /\ pc = "fetched"
    /\ ~prayers.present
    /\ log' = Append(log, "failed_to_fetch")
    /\ error' = "SystemExit"
    /\ exitStatus' = 1
    /\ pc' = "exited"
    /\ UNCHANGED <<now, response, prayers, i, evaluated, calls, sendOutcome,
                   sendResult, netlog, prevNotified>>

\* print today's prayer times; enter the for loop
BeginLoop ==
    /\ pc = "fetched"
    /\ prayers.present
    /\ log' = Append(log, "todays_prayer_times")
    /\ i' = 1
    /\ pc' = "loop"
    /\ UNCHANGED <<now, response, prayers, evaluated, calls, sendOutcome,
                   sendResult, netlog, error, exitStatus, prevNotified>>

\* variant: a prayer notified by the previous invocation is not notified again
CheckPrayer_Dedup ==
    /\ pc = "loop"
    /\ i <= Len(PrayerNames)
    /\ LET prayer_name == PrayerNames[i]
           prayer_time == prayers.times[prayer_name]
           r           == ParseTime(prayer_time)
       IN  /\ evaluated' = Append(evaluated, prayer_name)
           /\ IF ~r.ok
              THEN /\ error' = "ValueError"
                   /\ exitStatus' = 1
                   /\ pc' = "exited"
                   /\ UNCHANGED <<i, log>>
              ELSE IF Matches(now, r.hour, r.minute) /\ prevNotified # prayer_name
              THEN /\ log' = Append(log, "time_for")
                   /\ pc' = "send"
                   /\ UNCHANGED <<i, error, exitStatus>>
              ELSE /\ i' = i + 1
                   /\ UNCHANGED <<pc, log, error, exitStatus>>
    /\ UNCHANGED <<now, response, prayers, calls, sendOutcome, sendResult,
                   netlog, prevNotified>>

\* one iteration of the for loop up to the call of send_notification
CheckPrayer ==
    /\ pc = "loop"
    /\ i <= Len(PrayerNames)
    /\ LET prayer_name == PrayerNames[i]
           prayer_time == prayers.times[prayer_name]
           r           == ParseTime(prayer_time)
       IN  /\ evaluated' = Append(evaluated, prayer_name)
           /\ IF ~r.ok
              THEN /\ error' = "ValueError"
                   /\ exitStatus' = 1
                   /\ pc' = "exited"
                   /\ UNCHANGED <<i, log>>
              ELSE IF Matches(now, r.hour, r.minute)
              THEN /\ log' = Append(log, "time_for")
                   /\ pc' = "send"
                   /\ UNCHANGED <<i, error, exitStatus>>
              ELSE /\ i' = i + 1
                   /\ UNCHANGED <<pc, log, error, exitStatus>>
    /\ UNCHANGED <<now, response, prayers, calls, sendOutcome, sendResult,
                   netlog, prevNotified>>

\* variant: the loop goes on after a notification
SendNotification_NoReturn ==
    /\ pc = "send"
    /\ calls' = Append(calls, [name |-> PrayerNames[i],
                               time |-> prayers.times[PrayerNames[i]]])
    /\ netlog' = Append(netlog, "POST")
    /\ \E o \in SendOutcomes :
         /\ sendOutcome' = o
         /\ sendResult' = IF o = "ok" THEN "True" ELSE "False"
         /\ log' = Append(log, IF o = "ok" THEN "notification_sent"
                               ELSE "error_sending")
    /\ i' = i + 1
    /\ pc' = "loop"
    /\ UNCHANGED <<now, response, prayers, evaluated, error, exitStatus,
                   prevNotified>>

\* variant: a failed POST is not caught inside send_notification
SendNotification_Raises ==
    /\ pc = "send"
    /\ calls' = Append(calls, [name |-> PrayerNames[i],
                               time |-> prayers.times[PrayerNames[i]]])
    /\ netlog' = Append(netlog, "POST")
    /\ \E o \in SendOutcomes :
         /\ sendOutcome' = o
         /\ sendResult' = IF o = "ok" THEN "True" ELSE "none"
         /\ error' = IF o = "ok" THEN "none" ELSE "RequestException"
         /\ exitStatus' = IF o = "ok" THEN 0 ELSE 1
         /\ log' = IF o = "ok" THEN Append(log, "notification_sent") ELSE log
    /\ pc' = "exited"
    /\ UNCHANGED <<now, response, prayers, i, evaluated, prevNotified>>

\* send_notification(prayer_name, prayer_time); return
SendNotification ==
    /\ pc = "send"
    /\ calls' = Append(calls, [name |-> PrayerNames[i],
                               time |-> prayers.times[PrayerNames[i]]])
    /\ netlog' = Append(netlog, "POST")
    /\ \E o \in SendOutcomes :
         /\ sendOutcome' = o
         /\ sendResult' = IF o = "ok" THEN "True" ELSE "False"
         /\ log' = Append(log, IF o = "ok" THEN "notification_sent"
                               ELSE "error_sending")
    /\ exitStatus' = 0
    /\ pc' = "exited"
    /\ UNCHANGED <<now, response, prayers, i, evaluated, error, prevNotified>>

\* the loop ran out: print "No prayer time right now"
NoPrayer ==
    /\ pc = "loop"
    /\ i > Len(PrayerNames)
    /\ log' = Append(log, "no_prayer_time")
    /\ exitStatus' = 0
    /\ pc' = "exited"
    /\ UNCHANGED <<now, response, prayers, i, evaluated, calls, sendOutcome,
                   sendResult, netlog, error, prevNotified>>

\* the scheduler runs the script again: a fresh process
Invoke ==
    /\ pc = "exited"
    /\ prevNotified' = IF calls = <<>> THEN "nobody" ELSE calls[1].name
    /\ pc' = "start"
    /\ now' = NoClock
    /\ response' = NoResponse
    /\ prayers' = None
    /\ i' = 0
    /\ evaluated' = <<>>
    /\ calls' = <<>>
    /\ sendOutcome' = "none"
    /\ sendResult' = "none"
    /\ netlog' = <<>>
    /\ log' = <<>>
    /\ error' = "none"
    /\ exitStatus' = -1

Next ==
    \/ Start
    \/ GetPrayerTimes
    \/ FetchFailed
    \/ BeginLoop
    \/ CheckPrayer
    \/ SendNotification
    \/ NoPrayer
    \/ Invoke

Spec == Init /\ [][Next]_vars

(***************************************************************************)
(* Properties.  The definitions below state the documented behaviour on    *)
(* their own terms: the fixed order by rank, an HH:MM string decoded by    *)
(* position, the window as a range of minutes.                             *)
(***************************************************************************)
Rank(n) ==
    CASE n = "Fajr" -> 1 [] n = "Dhuhr" -> 2 [] n = "Asr" -> 3
      [] n = "Maghrib" -> 4 [] n = "Isha" -> 5

FixedOrder == <<"Fajr", "Dhuhr", "Asr", "Maghrib", "Isha">>

FiveNames == {"Fajr", "Dhuhr", "Asr", "Maghrib", "Isha"}

\* two runs of decimal digits separated by one colon
TwoIntegers(s) ==
    \E p \in 2..(Len(s) - 1) :
        /\ s[p] = ":"
        /\ \A q \in (1..Len(s)) \ {p} : s[q] \in Digits

HourOf(s) == 10 * DigitVal(s[1]) + DigitVal(s[2])

MinuteOf(s) == 10 * DigitVal(s[4]) + DigitVal(s[5])

WellFormedHHMM(s) ==
    /\ Len(s) = 5
    /\ s[3] = ":"
    /\ \A q \in {1, 2, 4, 5} : s[q] \in Digits
    /\ HourOf(s) \in 0..23
    /\ MinuteOf(s) \in 0..59

\* the documented match condition for clock reading t and HH:MM string s
Due(t, s) ==
    /\ WellFormedHHMM(s)
    /\ t.hour = HourOf(s)
    /\ t.minute \in (MinuteOf(s) - 5)..(MinuteOf(s) + 5)

Called == pc \in {"fetched", "loop", "send", "exited"}

Fetched == response.body.timings

PostCount == Cardinality({k \in 1..Len(netlog) : netlog[k] = "POST"})

GetCount == Cardinality({k \in 1..Len(netlog) : netlog[k] = "GET"})

DueNames ==
    IF prayers.present THEN {n \in FiveNames : Due(now, prayers.times[n])}
    ELSE {}

\* the documented success condition of the fetch
GoodResponse(r) ==
    /\ r.transport = "ok"
    /\ r.status \in 200..299
    /\ r.body.parses /\ r.body.isObject
    /\ r.body.hasCode /\ r.body.code = 200
    /\ r.body.hasData /\ r.body.hasTimings
    /\ FiveNames \subseteq DOMAIN r.body.timings

\* the first prayer in the fixed order that either is due or does not parse
Decisive(t, times) ==
    {n \in FiveNames : Due(t, times[n]) \/ ~TwoIntegers(times[n])}

FirstDecisive(t, times) ==
    CHOOSE n \in Decisive(t, times) :
        \A m \in Decisive(t, times) : Rank(n) <= Rank(m)

\* C1: in every run send_notification is invoked at most once (and at most
\* one POST is issued), however many of the five prayers are due
C1_AtMostOneNotification ==
    /\ Len(calls) <= 1
    /\ PostCount <= 1

C1_Witness ==
    /\ pc = "exited"
    /\ prayers.present
    /\ Cardinality(DueNames) >= 3
    /\ Len(calls) = 1

\* C2: when get_prayer_times returned the absent result (the response was
\* not a good one), the run can only end with exit status 1 through
\* sys.exit, and send_notification is never invoked
C2_AbsentFetchExitsOne ==
    (Called /\ (~prayers.present \/ ~GoodResponse(response))) =>
        /\ pc \in {"fetched", "exited"}
        /\ calls = <<>>
        /\ PostCount = 0
        /\ pc = "fetched" => (ENABLED FetchFailed /\ ~ENABLED BeginLoop)
        /\ pc = "exited" => (exitStatus = 1 /\ error = "SystemExit")

C2_Witness ==
    /\ pc = "exited"
    /\ response.transport = "ok"
    /\ response.status = 200
    /\ response.body.hasCode
    /\ response.body.code = 400
    /\ exitStatus = 1

\* C3: a failed send becomes the return value False, which the orchestrator
\* ignores: the run ends with exit status 0, after one send and no retry
C3_SendFailureIgnored ==
    (pc = "exited" /\ sendOutcome \notin {"none", "ok"}) =>
        /\ sendResult = "False"
        /\ exitStatus = 0
        /\ error = "none"
        /\ Len(calls) = 1
        /\ netlog = <<"GET", "POST">>
        /\ log[Len(log)] = "error_sending"

C3_Witness ==
    /\ pc = "exited"
    /\ sendOutcome = "timeout"
    /\ sendResult = "False"
    /\ exitStatus = 0

AllWellFormed == \A n \in FiveNames : WellFormedHHMM(prayers.times[n])

\* C4: with five well-formed HH:MM strings, a prayer is taken as matching
\* exactly when it is due (same hour, minutes at most 5 apart); the run
\* invokes send_notification iff some prayer is due, and otherwise prints
\* that no prayer is due and ends normally
C4_MatchRule ==
    (Called /\ prayers.present /\ AllWellFormed) =>
        /\ pc \in {"loop", "send"} =>
              \A n \in FiveNames : Rank(n) < i => ~Due(now, prayers.times[n])
        /\ pc = "send" => Due(now, prayers.times[FixedOrder[i]])
        /\ pc = "exited" =>
              /\ (calls # <<>>) <=> (DueNames # {})
              /\ calls = <<>> =>
                    /\ log[Len(log)] = "no_prayer_time"
                    /\ exitStatus = 0
                    /\ error = "none"

C4_Witness ==
    /\ pc = "exited"
    /\ prayers.present
    /\ AllWellFormed
    /\ now = Clock(5, 3)
    /\ prayers.times["Fajr"] = T0500
    /\ calls = <<[name |-> "Fajr", time |-> T0500]>>
    /\ prevNotified = "nobody"

\* C5: the prayer notified is the earliest due one in the order Fajr,
\* Dhuhr, Asr, Maghrib, Isha; send_notification gets its name and its time
\* string as fetched; no later prayer is evaluated or notified
C5_FirstMatchWins ==
    /\ calls # <<>> =>
          /\ Len(calls) = 1
          /\ calls[1].name \in DueNames
          /\ \A n \in DueNames : Rank(calls[1].name) <= Rank(n)
          /\ calls[1].time = Fetched[calls[1].name]
          /\ evaluated = SubSeq(FixedOrder, 1, Rank(calls[1].name))
    /\ (pc = "exited" /\ prayers.present /\ AllWellFormed
          /\ Cardinality(DueNames) >= 2) => calls # <<>>

C5_Witness ==
    /\ pc = "exited"
    /\ prayers.present
    /\ now = Clock(5, 3)
    /\ prayers.times["Fajr"] = T2358
    /\ prayers.times["Dhuhr"] = T0508
    /\ prayers.times["Asr"] = T0500
    /\ calls = <<[name |-> "Dhuhr", time |-> T0508]>>
    /\ evaluated = <<"Fajr", "Dhuhr">>

\* C6: a prayer whose hour differs from the current hour never matches,
\* however close on the clock: no notification is ever sent for it
C6_HourMismatchNeverMatches ==
    /\ \A k \in 1..Len(calls) :
          /\ WellFormedHHMM(calls[k].time)
          /\ HourOf(calls[k].time) = now.hour
    /\ pc = "send" => HourOf(prayers.times[FixedOrder[i]]) = now.hour
    /\ (pc = "exited" /\ prayers.present /\ AllWellFormed
          /\ \A n \in FiveNames : HourOf(prayers.times[n]) # now.hour) =>
              (calls = <<>> /\ exitStatus = 0)

C6_Witness ==
    /\ pc = "exited"
    /\ prayers.present
    /\ now = Clock(0, 2)
    /\ \A n \in FiveNames : prayers.times[n] = T2358
    /\ evaluated = FixedOrder
    /\ calls = <<>>

C8_NetworkCallSequence ==
    /\ netlog \in {<<>>, <<"GET">>, <<"GET", "POST">>}
    /\ Called <=> GetCount = 1
    /\ PostCount = Len(calls)
    /\ PostCount = 1 => prayers.present
    /\ pc = "send" => netlog = <<"GET">>

C8_Witness ==
    /\ pc = "exited"
    /\ netlog = <<"GET", "POST">>
    /\ sendOutcome = "http_error"

\* C9: when the prayer being evaluated has a time string that does not parse
\* as two colon-separated integers, the run ends there with an unhandled
\* error and a non-zero exit status, without any notification and without
\* evaluating later prayers; a malformed string after the first match is
\* never parsed
C9_MalformedFailsRun ==
    /\ error = "ValueError" =>
          /\ pc = "exited"
          /\ exitStatus # 0
          /\ calls = <<>>
          /\ netlog = <<"GET">>
          /\ evaluated # <<>>
          /\ ~TwoIntegers(prayers.times[evaluated[Len(evaluated)]])
          /\ evaluated = SubSeq(FixedOrder, 1, Len(evaluated))
    /\ (pc = "exited" /\ prayers.present
          /\ Decisive(now, prayers.times) # {}) =>
          LET d == FirstDecisive(now, prayers.times)
          IN  /\ evaluated = SubSeq(FixedOrder, 1, Rank(d))
              /\ ~TwoIntegers(prayers.times[d]) =>
                    (error = "ValueError" /\ calls = <<>> /\ exitStatus # 0)
              /\ TwoIntegers(prayers.times[d]) =>
                    (error = "none" /\ exitStatus = 0 /\ Len(calls) = 1)

C9_Witness ==
    /\ pc = "exited"
    /\ prayers.present
    /\ error = "ValueError"
    /\ now = Clock(5, 3)
    /\ prayers.times["Fajr"] = T0558
    /\ prayers.times["Dhuhr"] = TZoneSuffix
    /\ prayers.times["Asr"] = T0500
    /\ evaluated = <<"Fajr", "Dhuhr">>
    /\ calls = <<>>

\* the outcome the documentation gives for one run's own inputs
ExpectedOutcome(t, r) ==
    IF ~GoodResponse(r) THEN [notified |-> "nobody", exit |-> 1]
    ELSE IF Decisive(t, r.body.timings) = {}
         THEN [notified |-> "nobody", exit |-> 0]
    ELSE LET d == FirstDecisive(t, r.body.timings)
         IN  IF TwoIntegers(r.body.timings[d])
             THEN [notified |-> d, exit |-> 0]
             ELSE [notified |-> "nobody", exit |-> 1]

Outcome ==
    [notified |-> IF calls = <<>> THEN "nobody" ELSE calls[1].name,
     exit     |-> exitStatus]

\* C10: the outcome of a run (who is notified, the exit status) is a function
\* of that run's own clock reading and fetch result, and the value returned
\* by send_notification of its own send result, whatever the earlier run
\* did; a run in which the prayer notified by the previous run is again the
\* first due one notifies it again
C10_RunsIndependent ==
    pc = "exited" =>
        /\ Outcome = ExpectedOutcome(now, response)
        /\ sendResult = (IF calls = <<>> THEN "none"
                         ELSE IF sendOutcome = "ok" THEN "True" ELSE "False")
        /\ (prevNotified \in FiveNames /\ prayers.present
              /\ Decisive(now, prayers.times) # {}
              /\ FirstDecisive(now, prayers.times) = prevNotified
              /\ Due(now, prayers.times[prevNotified])) =>
                  (Len(calls) = 1 /\ calls[1].name = prevNotified)

C10_Witness ==
    /\ pc = "exited"
    /\ prayers.present
    /\ prevNotified = "Maghrib"
    /\ now = Clock(5, 10)
    /\ calls = <<[name |-> "Maghrib", time |-> T0508]>>

====
